---- MODULE Spec2Model ----
(***************************************************************************)
(* Scrim lifecycle of the SpikeLeagueScrim bot (src/main.py): the scrims   *)
(* and verifications tables, the /scrim creation flow, booking and the     *)
(* ready-check, match verification, /cancel_scrim and the expiry task.     *)
(* The bot runs on one asyncio event loop: a step of the model is the code *)
(* a coroutine runs between two awaits.                                    *)
(***************************************************************************)
EXTENDS Integers, Sequences, FiniteSets, Bags, TLC

\* ---------------------------------------------------------------- bounds
NumUsers == 3
MaxScrims == 2
MaxAttempts == 2
MaxSweepers == 1
MaxTasks == 2

\* ------------------------------------------------------------- constants
\* _ready_check: timeout = 1800 s, in event-loop ticks of 15 min
timeout == 2

None == 0
Users == 1..NumUsers
\* bot.user: adds the first reaction to each ready-check DM itself
BotUser == NumUsers + 1

\* no call has refused since the last change of state
NoReply == [op |-> "none"]

Active == {"open", "pending", "booked"}
Terminal == {"cancelled", "expired", "played"}

VARIABLES
    scrims,         \* table scrims: row id |-> row (id = position)
    verifications,  \* table verifications: bag of rows <<scrim_id, user_id>>
    flows,          \* user |-> creation flows (modal + ScrimView) in progress
    rc,             \* booking attempts: book_button and its _ready_check task
    mviews,         \* scrim id |-> challenger_id of the attached MatchVerificationView
    completing,     \* match_completed calls suspended before their cascade
    sweepers,       \* expire_old_scrims tasks
    cutoff,         \* rows 1..cutoff have created_at < time.time() - expiry_time
    seen,           \* users 1..seen have used the bot
    reply           \* what the last call gave back, if it refused or was observed

vars == <<scrims, verifications, flows, rc, mviews, completing, sweepers, cutoff, seen,
         reply>>

Ids == DOMAIN scrims

\* ------------------------------------------------------ database operations
\* scrim_data of _post_scrim; created_at = time.time() grows with the row id,
\* the selections of the creation flow are one value per requester
Row(requester) ==
    [requester_id |-> requester, team_name |-> requester,
     status |-> "open", booked_by |-> None]

\* create_scrim: INSERT of the row; the id is the id of the posted message
create_scrim(tbl, scrim_data) == Append(tbl, scrim_data)

get_scrim_by_id(tbl, scrim_id) == tbl[scrim_id]

\* (INSERT OR REPLACE of a row with the three columns at hand: the other
\* columns are lost)
update_scrim_status_replace(tbl, scrim_id, status, booked_by) ==
    IF scrim_id \notin DOMAIN tbl THEN tbl
    ELSE [tbl EXCEPT ![scrim_id] =
            [requester_id |-> None, team_name |-> None,
             status |-> status, booked_by |-> booked_by]]

\* UPDATE scrims SET status = ?[, booked_by = ?] WHERE id = ?
update_scrim_status(tbl, scrim_id, status, booked_by) ==
    IF scrim_id \notin DOMAIN tbl THEN tbl
    ELSE IF booked_by # None
         THEN [tbl EXCEPT ![scrim_id].status = status, ![scrim_id].booked_by = booked_by]
         ELSE [tbl EXCEPT ![scrim_id].status = status]

\* (a plain INSERT into a table without the UNIQUE constraint)
add_verification_plain(ver, scrim_id, user_id) ==
    ver (+) SetToBag({<<scrim_id, user_id>>})

\* INSERT OR IGNORE INTO verifications: UNIQUE(scrim_id, user_id) makes the
\* insert of a pair that has a row already a no-op
add_verification(ver, scrim_id, user_id) ==
    IF BagIn(<<scrim_id, user_id>>, ver) THEN ver
    ELSE ver (+) SetToBag({<<scrim_id, user_id>>})

\* cursor.rowcount of the insert that took the table from ver to after
rowcount(ver, after) == BagCardinality(after) - BagCardinality(ver)

\* SELECT COUNT(*) FROM verifications WHERE scrim_id = ?
get_verification_count(ver, scrim_id) ==
    BagCardinality([v \in {w \in BagToSet(ver) : w[1] = scrim_id} |-> ver[v]])

\* SELECT 1 FROM verifications WHERE scrim_id = ? AND user_id = ?
user_has_verified(ver, scrim_id, user_id) == BagIn(<<scrim_id, user_id>>, ver)

\* the id of the user's row with an active status, or None:
\* ORDER BY created_at DESC LIMIT 1 is the row with the greatest id
get_active_scrim_for_user(tbl, user_id) ==
    LET act == {i \in DOMAIN tbl : tbl[i].requester_id = user_id /\ tbl[i].status \in Active}
    IN  IF act = {} THEN None
        ELSE CHOOSE i \in act : \A j \in act : j <= i

\* (a comparison the wrong way round: the rows younger than the threshold)
get_expired_scrims_young(tbl, cut) ==
    {i \in DOMAIN tbl : tbl[i].status = "open" /\ i > cut}

\* the ids of the open rows with created_at < time.time() - expiry_time
get_expired_scrims(tbl, cut) ==
    {i \in DOMAIN tbl : tbl[i].status = "open" /\ i <= cut}

\* the rows expire_user_scrims selects
ExpireSelect(tbl, user_ids, exclude_id) ==
    {i \in DOMAIN tbl : /\ tbl[i].requester_id \in user_ids
                        /\ tbl[i].status = "open"
                        /\ i # exclude_id}

\* expire_user_scrims: every selected row is set to expired in one transaction
expire_user_scrims(tbl, user_ids, exclude_id) ==
    [i \in DOMAIN tbl |->
        IF i \in ExpireSelect(tbl, user_ids, exclude_id)
        THEN [tbl[i] EXCEPT !.status = "expired"]
        ELSE tbl[i]]

\* ascending sequence of a set of row ids (rows are scanned in rowid order)
RECURSIVE SortedSeq(_)
SortedSeq(S) ==
    IF S = {} THEN <<>>
    ELSE LET m == CHOOSE x \in S : \A y \in S : x <= y
         IN  <<m>> \o SortedSeq(S \ {m})

\* ------------------------------------------------------------------ Init
Init ==
    /\ scrims = <<>>
    /\ verifications = EmptyBag
    /\ flows = [u \in Users |-> 0]
    /\ rc = <<>>
    /\ mviews = <<>>
    /\ completing = {}
    /\ sweepers = <<>>
    /\ cutoff = 0
    /\ seen = 0
    /\ reply = NoReply

\* user ids are interchangeable: users are numbered in the order in which
\* they first use the bot (a command or a button)
Arrives(u) ==
    /\ u <= seen + 1
    /\ seen' = IF u > seen THEN u ELSE seen

\* ------------------------------------------------------------- on_ready
\* init_db, command sync, and one more expire_old_scrims task
on_ready ==
    /\ Len(sweepers) < MaxSweepers
    /\ sweepers' = Append(sweepers, [pc |-> "sleep", queue |-> <<>>])
    /\ UNCHANGED <<scrims, verifications, flows, rc, mviews, completing, cutoff, seen>>
    /\ reply' = NoReply

\* time.time() advances: the oldest row that was not yet older than
\* expiry_time (12 hours) becomes so
WallTick ==
    /\ cutoff < Len(scrims)
    /\ cutoff' = cutoff + 1
    /\ UNCHANGED <<scrims, verifications, flows, rc, mviews, completing, sweepers, seen>>
    /\ reply' = NoReply

\* ------------------------------------------------------------- creation
RECURSIVE FlowCount(_)
FlowCount(S) ==
    IF S = {} THEN 0
    ELSE LET u == CHOOSE x \in S : TRUE IN flows[u] + FlowCount(S \ {u})

\* /scrim: the active-request check, then the modal is sent
create_scrim_cmd(u) ==
    /\ Len(sweepers) > 0
    /\ Arrives(u)
    /\ get_active_scrim_for_user(scrims, u) = None
    /\ Len(scrims) + FlowCount(Users) < MaxScrims
    /\ flows' = [flows EXCEPT ![u] = @ + 1]
    /\ UNCHANGED <<scrims, verifications, rc, mviews, completing, sweepers, cutoff>>
    /\ reply' = NoReply

\* ScrimView._post_scrim: the message is sent, then the row is inserted
post_scrim(u) ==
    /\ flows[u] > 0
    /\ Len(scrims) < MaxScrims
    /\ scrims' = create_scrim(scrims, Row(u))
    /\ mviews' = Append(mviews, None)
    /\ flows' = [flows EXCEPT ![u] = @ - 1]
    /\ UNCHANGED <<verifications, rc, completing, sweepers, cutoff, seen>>
    /\ reply' = NoReply

\* (cancel_scrim without the check of the status)
cancel_scrim_any(u) ==
    LET active == get_active_scrim_for_user(scrims, u) IN
    /\ active # None
    /\ scrims' = update_scrim_status(scrims, active, "cancelled", None)
    /\ UNCHANGED <<verifications, flows, rc, mviews, completing, sweepers, cutoff, seen>>
    /\ reply' = NoReply

\* /cancel_scrim: no await between the read and the write
cancel_scrim(u) ==
    LET active == get_active_scrim_for_user(scrims, u) IN
    /\ active # None
    /\ scrims[active].status = "open"
    /\ scrims' = update_scrim_status(scrims, active, "cancelled", None)
    /\ UNCHANGED <<verifications, flows, rc, mviews, completing, sweepers, cutoff, seen>>
    /\ reply' = NoReply

\* -------------------------------------------------------------- booking
Attempt(scrim_id, requester, challenger) ==
    [id |-> scrim_id, requester_id |-> requester, challenger_id |-> challenger,
     pc |-> "fetch_user", outcome |-> "none",
     confirmed |-> {}, waited |-> 0, elapsed |-> 0, early |-> {}]

\* an attempt whose coroutine has returned
Finished(att, outcome) ==
    [att EXCEPT !.pc = "done", !.outcome = outcome,
                !.confirmed = {}, !.waited = 0, !.elapsed = 0, !.early = {}]

\* (book_button without its first check)
book_button_own(c, scrim_id) ==
    /\ Len(rc) < MaxAttempts
    /\ Arrives(c)
    /\ scrim_id \in Ids
    /\ get_scrim_by_id(scrims, scrim_id).status = "open"
    /\ rc' = Append(rc, Attempt(scrim_id, scrims[scrim_id].requester_id, c))
    /\ UNCHANGED <<scrims, verifications, flows, mviews, completing, sweepers, cutoff>>
    /\ reply' = NoReply

\* BookingView.book_button up to its first await (bot.fetch_user)
book_button(c, scrim_id) ==
    /\ Len(rc) < MaxAttempts
    /\ Arrives(c)
    /\ scrim_id \in Ids
    /\ c # scrims[scrim_id].requester_id
    /\ get_scrim_by_id(scrims, scrim_id).status = "open"
    /\ rc' = Append(rc, Attempt(scrim_id, scrims[scrim_id].requester_id, c))
    /\ UNCHANGED <<scrims, verifications, flows, mviews, completing, sweepers, cutoff>>
    /\ reply' = NoReply

\* book_button after fetch_user: the row is set to pending and the
\* ready-check task is created
book_pending(a, fetched) ==
    /\ a \in DOMAIN rc
    /\ rc[a].pc = "fetch_user"
    /\ IF fetched
       THEN /\ scrims' = update_scrim_status(scrims, rc[a].id, "pending", rc[a].challenger_id)
            /\ rc' = [rc EXCEPT ![a].pc = "send_dms"]
       ELSE /\ rc' = [rc EXCEPT ![a] = Finished(@, "nofetch")]
            /\ UNCHANGED scrims
    /\ UNCHANGED <<verifications, flows, mviews, completing, sweepers, cutoff, seen>>
    /\ reply' = NoReply

\* (_ready_check that gives up without setting the row back to open)
send_dms_norevert(a, dm1, dm2) ==
    /\ a \in DOMAIN rc
    /\ rc[a].pc = "send_dms"
    /\ rc' = [rc EXCEPT ![a] = IF dm1 /\ dm2 THEN [@ EXCEPT !.pc = "wait"]
                                ELSE Finished(@, "nodm")]
    /\ UNCHANGED <<scrims, verifications, flows, mviews, completing, sweepers, cutoff, seen>>
    /\ reply' = NoReply

\* _ready_check: the two DMs; if either could not be sent the row is set
\* back to open and the task returns
send_dms(a, dm1, dm2) ==
    /\ a \in DOMAIN rc
    /\ rc[a].pc = "send_dms"
    /\ IF dm1 /\ dm2
       THEN /\ rc' = [rc EXCEPT ![a].pc = "wait"]
            /\ UNCHANGED scrims
       ELSE /\ scrims' = update_scrim_status(scrims, rc[a].id, "open", None)
            /\ rc' = [rc EXCEPT ![a] = Finished(@, "nodm")]
    /\ UNCHANGED <<verifications, flows, mviews, completing, sweepers, cutoff, seen>>
    /\ reply' = NoReply

\* the ready-check DMs of attempt a: <<a, 1>> to the requester, <<a, 2>> to
\* the challenger
dm_ids(a) == {<<a, 1>>, <<a, 2>>}

\* the messages a reaction can be added to, and who can see them
IssuedDMs ==
    {m \in (DOMAIN rc) \X {1, 2} :
        rc[m[1]].pc \in {"wait", "expiring", "booked"}}

Reactors(m) ==
    {IF m[2] = 1 THEN rc[m[1]].requester_id ELSE rc[m[1]].challenger_id, BotUser}

\* check(reaction, user) of attempt a's wait_for
check(a, m, user) ==
    /\ m \in dm_ids(a)
    /\ user \in {rc[a].requester_id, rc[a].challenger_id}

\* the event loop clock advances: every wait_for in progress gets older
LoopTick ==
    /\ \E a \in DOMAIN rc : rc[a].pc = "wait" /\ rc[a].waited < timeout
    /\ rc' = [a \in DOMAIN rc |->
                IF rc[a].pc = "wait"
                THEN [rc[a] EXCEPT
                        !.waited = IF @ < timeout THEN @ + 1 ELSE @,
                        !.elapsed = IF @ < timeout THEN @ + 1 ELSE @]
                ELSE rc[a]]
    /\ UNCHANGED <<scrims, verifications, flows, mviews, completing, sweepers, cutoff, seen>>
    /\ reply' = NoReply

\* a reaction_add event reaches attempt a's wait_for; the loop
\* `while len(confirmed) < 2` runs on until its next await
reaction_add(a, m, user) ==
    /\ a \in DOMAIN rc
    /\ rc[a].pc = "wait"
    /\ rc[a].waited < timeout
    /\ m \in IssuedDMs
    /\ user \in Reactors(m)
    /\ check(a, m, user) \/ m[1] = a
    /\ LET att == rc[a]
           parties == {att.requester_id, att.challenger_id}
           heard == IF m[1] = a /\ user \in parties /\ att.elapsed < timeout
                    THEN att.early \cup {user} ELSE att.early
           conf == att.confirmed \cup {user}
           sel == ExpireSelect(scrims, parties, att.id)
           tbl == expire_user_scrims(scrims, parties, att.id)
       IN  IF ~check(a, m, user)
           THEN /\ rc' = [rc EXCEPT ![a].early = heard]
                /\ UNCHANGED scrims
           ELSE IF Cardinality(conf) < 2
           THEN \* the next wait_for starts with the full timeout
                /\ rc' = [rc EXCEPT ![a].early = heard, ![a].confirmed = conf,
                                    ![a].waited = 0]
                /\ UNCHANGED scrims
           ELSE IF sel = {}
           THEN \* nothing to expire: no await before the row is set to booked
                /\ scrims' = update_scrim_status(tbl, att.id, "booked", att.challenger_id)
                /\ rc' = [rc EXCEPT ![a].early = heard, ![a].confirmed = conf,
                                    ![a].pc = "booked"]
           ELSE /\ scrims' = tbl
                /\ rc' = [rc EXCEPT ![a].early = heard, ![a].confirmed = conf,
                                    ![a].pc = "expiring"]
    /\ UNCHANGED <<verifications, flows, mviews, completing, sweepers, cutoff, seen>>
    /\ reply' = NoReply

\* asyncio.TimeoutError: the row is set back to open
rc_timeout(a) ==
    /\ a \in DOMAIN rc
    /\ rc[a].pc = "wait"
    /\ rc[a].waited >= timeout
    /\ scrims' = update_scrim_status(scrims, rc[a].id, "open", None)
    /\ rc' = [rc EXCEPT ![a] = Finished(@, "timeout")]
    /\ UNCHANGED <<verifications, flows, mviews, completing, sweepers, cutoff, seen>>
    /\ reply' = NoReply

\* after the embeds of the expired scrims were updated: mark as booked
rc_booked(a) ==
    /\ a \in DOMAIN rc
    /\ rc[a].pc = "expiring"
    /\ scrims' = update_scrim_status(scrims, rc[a].id, "booked", rc[a].challenger_id)
    /\ rc' = [rc EXCEPT ![a].pc = "booked"]
    /\ UNCHANGED <<verifications, flows, mviews, completing, sweepers, cutoff, seen>>
    /\ reply' = NoReply

\* channel_msg.edit(view=MatchVerificationView(...)); a failure is printed
rc_view(a, edited) ==
    /\ a \in DOMAIN rc
    /\ rc[a].pc = "booked"
    /\ mviews' = IF edited /\ rc[a].id \in DOMAIN mviews
                 THEN [mviews EXCEPT ![rc[a].id] = rc[a].challenger_id]
                 ELSE mviews
    /\ rc' = [rc EXCEPT ![a] = Finished(@, "booked")]
    /\ UNCHANGED <<scrims, verifications, flows, completing, sweepers, cutoff, seen>>
    /\ reply' = NoReply

\* ---------------------------------------------------- match verification
\* (match_completed that marks the row played at the first verification)
match_completed_first(user, scrim_id) ==
    /\ scrim_id \in Ids
    /\ mviews[scrim_id] # None
    /\ user \in {scrims[scrim_id].requester_id, mviews[scrim_id]}
    /\ get_scrim_by_id(scrims, scrim_id).status = "booked"
    /\ ~user_has_verified(verifications, scrim_id, user)
    /\ LET scrim == get_scrim_by_id(scrims, scrim_id)
       IN  /\ verifications' = add_verification(verifications, scrim_id, user)
           /\ scrims' = update_scrim_status(scrims, scrim_id, "played", None)
           /\ completing' = completing \cup
                {[id |-> scrim_id, users |-> {scrim.requester_id, scrim.booked_by}]}
    /\ UNCHANGED <<flows, rc, mviews, sweepers, cutoff, seen>>
    /\ reply' = NoReply

\* MatchVerificationView.match_completed up to its first await
match_completed(user, scrim_id) ==
    /\ scrim_id \in Ids
    /\ mviews[scrim_id] # None
    /\ user \in {scrims[scrim_id].requester_id, mviews[scrim_id]}
    /\ get_scrim_by_id(scrims, scrim_id).status = "booked"
    /\ ~user_has_verified(verifications, scrim_id, user)
    /\ LET scrim == get_scrim_by_id(scrims, scrim_id)
           ver == add_verification(verifications, scrim_id, user)
           verification_count == get_verification_count(ver, scrim_id)
       IN  /\ verifications' = ver
           /\ IF verification_count >= 2
              THEN /\ scrims' = update_scrim_status(scrims, scrim_id, "played", None)
                   /\ completing' = completing \cup
                        {[id |-> scrim_id,
                          users |-> {scrim.requester_id, scrim.booked_by}]}
              ELSE UNCHANGED <<scrims, completing>>
    /\ UNCHANGED <<flows, rc, mviews, sweepers, cutoff, seen>>
    /\ reply' = NoReply

\* match_completed after update_embed_status: the cascade
completed_cascade(c) ==
    /\ c \in completing
    /\ scrims' = expire_user_scrims(scrims, c.users, c.id)
    /\ completing' = completing \ {c}
    /\ UNCHANGED <<verifications, flows, rc, mviews, sweepers, cutoff, seen>>
    /\ reply' = NoReply

\* ----------------------------------------------------------- expiry task
\* expire_old_scrims: the query, and the first row is expired before any await
sweep_start(i) ==
    /\ i \in DOMAIN sweepers
    /\ sweepers[i].pc = "sleep"
    /\ LET expired_scrims == SortedSeq(get_expired_scrims(scrims, cutoff))
       IN  /\ expired_scrims # <<>>
           /\ scrims' = update_scrim_status(scrims, Head(expired_scrims), "expired", None)
           /\ sweepers' = [sweepers EXCEPT ![i] =
                              [pc |-> "busy", queue |-> Tail(expired_scrims)]]
    /\ UNCHANGED <<verifications, flows, rc, mviews, completing, cutoff, seen>>
    /\ reply' = NoReply

\* after the embed update, delete and DM of one row: the next row, or sleep
sweep_next(i) ==
    /\ i \in DOMAIN sweepers
    /\ sweepers[i].pc = "busy"
    /\ IF sweepers[i].queue = <<>>
       THEN /\ sweepers' = [sweepers EXCEPT ![i].pc = "sleep"]
            /\ UNCHANGED scrims
       ELSE /\ scrims' = update_scrim_status(scrims, Head(sweepers[i].queue), "expired", None)
            /\ sweepers' = [sweepers EXCEPT ![i].queue = Tail(@)]
    /\ UNCHANGED <<verifications, flows, rc, mviews, completing, cutoff, seen>>
    /\ reply' = NoReply

\* ------------------------------------------------------------------ Next
Next ==
    \/ on_ready
    \/ WallTick
    \/ LoopTick
    \/ \E u \in Users : create_scrim_cmd(u)
    \/ \E u \in Users : post_scrim(u)
    \/ \E u \in Users : cancel_scrim(u)
    \/ \E c \in Users, s \in Ids : book_button(c, s)
    \/ \E a \in DOMAIN rc, fetched \in BOOLEAN : book_pending(a, fetched)
    \/ \E a \in DOMAIN rc, dm1 \in BOOLEAN, dm2 \in BOOLEAN : send_dms(a, dm1, dm2)
    \/ \E a \in DOMAIN rc, m \in IssuedDMs, u \in Users \cup {BotUser} : reaction_add(a, m, u)
    \/ \E a \in DOMAIN rc : rc_timeout(a)
    \/ \E a \in DOMAIN rc : rc_booked(a)
    \/ \E a \in DOMAIN rc, edited \in BOOLEAN : rc_view(a, edited)
    \/ \E u \in Users, s \in Ids : match_completed(u, s)
    \/ \E c \in completing : completed_cascade(c)
    \/ \E i \in DOMAIN sweepers : sweep_start(i)
    \/ \E i \in DOMAIN sweepers : sweep_next(i)

Spec == Init /\ [][Next]_vars

\* ------------------------------------------------ the expiry task, fairly
\* the behaviours in which Book Scrim is accepted at most once
book_once(c, scrim_id) == rc = <<>> /\ book_button(c, scrim_id)

SingleBooking ==
    \/ on_ready
    \/ WallTick
    \/ LoopTick
    \/ \E u \in Users : create_scrim_cmd(u)
    \/ \E u \in Users : post_scrim(u)
    \/ \E u \in Users : cancel_scrim(u)
    \/ \E c \in Users, s \in Ids : book_once(c, s)
    \/ \E a \in DOMAIN rc, fetched \in BOOLEAN : book_pending(a, fetched)
    \/ \E a \in DOMAIN rc, dm1 \in BOOLEAN, dm2 \in BOOLEAN : send_dms(a, dm1, dm2)
    \/ \E a \in DOMAIN rc, m \in IssuedDMs, u \in Users \cup {BotUser} : reaction_add(a, m, u)
    \/ \E a \in DOMAIN rc : rc_timeout(a)
    \/ \E a \in DOMAIN rc : rc_booked(a)
    \/ \E a \in DOMAIN rc, edited \in BOOLEAN : rc_view(a, edited)
    \/ \E u \in Users, s \in Ids : match_completed(u, s)
    \/ \E c \in completing : completed_cascade(c)
    \/ \E i \in DOMAIN sweepers : sweep_start(i)
    \/ \E i \in DOMAIN sweepers : sweep_next(i)

\* expire_old_scrims is a task of the event loop: when its sleep(600) or one
\* of its awaits is over, the loop resumes it
Live ==
    /\ Init
    /\ [][SingleBooking]_vars
    /\ \A i \in 1..MaxSweepers : WF_vars(sweep_start(i)) /\ WF_vars(sweep_next(i))

\* the behaviours with one accepted booking in which the event loop runs
\* every ready-check step that is due: the clock advances while a wait_for
\* is pending, a wait_for that reached its timeout raises, and the code
\* after each await of book_button and _ready_check is resumed
ReadyChecks ==
    /\ Init
    /\ [][SingleBooking]_vars
    /\ WF_vars(LoopTick)
    /\ \A a \in 1..MaxAttempts :
            /\ WF_vars(\E fetched \in BOOLEAN : book_pending(a, fetched))
            /\ WF_vars(\E dm1 \in BOOLEAN, dm2 \in BOOLEAN : send_dms(a, dm1, dm2))
            /\ WF_vars(rc_timeout(a))
            /\ WF_vars(rc_booked(a))
            /\ WF_vars(\E edited \in BOOLEAN : rc_view(a, edited))

\* ----------------------------------------------------- the refused calls
\* a handler that returns at one of its first checks: nothing but the
\* ephemeral message it answers with
Refused(op, user, scrim_id, msg) ==
    /\ reply' = [op |-> op, user |-> user, id |-> scrim_id, msg |-> msg]
    /\ UNCHANGED <<scrims, verifications, flows, rc, mviews, completing, sweepers,
                   cutoff, seen>>

\* /scrim of a user with an active row
create_refused(u) ==
    /\ get_active_scrim_for_user(scrims, u) # None
    /\ Refused("create_scrim_cmd", u, get_active_scrim_for_user(scrims, u),
               "You already have an active scrim request")

\* Book Scrim pressed by the requester, or on a row that is not open
book_refused(c, scrim_id) ==
    /\ scrim_id \in Ids
    /\ IF c = scrims[scrim_id].requester_id
       THEN Refused("book_button", c, scrim_id, "You can't book your own scrim!")
       ELSE /\ get_scrim_by_id(scrims, scrim_id).status # "open"
            /\ Refused("book_button", c, scrim_id, "This scrim is no longer available.")

\* /cancel_scrim of a user without an active row, or whose row is not open
cancel_refused(u) ==
    LET active == get_active_scrim_for_user(scrims, u) IN
    IF active = None
    THEN Refused("cancel_scrim", u, None, "You have no active scrim to cancel.")
    ELSE /\ scrims[active].status # "open"
         /\ Refused("cancel_scrim", u, active, "Your scrim cannot be cancelled.")

\* Match Completed pressed by somebody else, on a row that is not booked, or
\* a second time
match_refused(user, scrim_id) ==
    /\ scrim_id \in Ids
    /\ mviews[scrim_id] # None
    /\ IF user \notin {scrims[scrim_id].requester_id, mviews[scrim_id]}
       THEN Refused("match_completed", user, scrim_id, "You are not part of this match!")
       ELSE IF get_scrim_by_id(scrims, scrim_id).status # "booked"
       THEN Refused("match_completed", user, scrim_id, "This match is not in booked status.")
       ELSE /\ user_has_verified(verifications, scrim_id, user)
            /\ Refused("match_completed", user, scrim_id, "You already confirmed.")

\* the behaviours with one accepted booking, and the calls that are refused
RepliesNext ==
    \/ SingleBooking
    \/ \E u \in Users : create_refused(u)
    \/ \E c \in Users, s \in Ids : book_refused(c, s)
    \/ \E u \in Users : cancel_refused(u)
    \/ \E u \in Users, s \in Ids : match_refused(u, s)

Replies == Init /\ [][RepliesNext]_vars

\* ------------------------------------------------- a failing status write
\* update_scrim_status caught an exception (the database is locked, the
\* disk is full): it printed it and returned False, the table is as it was.
\* No caller looks at the value returned.
\* book_button after fetch_user: the write of pending failed
book_pending_failed(a) ==
    /\ a \in DOMAIN rc
    /\ rc[a].pc = "fetch_user"
    /\ rc' = [rc EXCEPT ![a].pc = "send_dms"]
    /\ UNCHANGED <<scrims, verifications, flows, mviews, completing, sweepers, cutoff, seen>>
    /\ reply' = NoReply

\* asyncio.TimeoutError: the write of open failed
rc_timeout_failed(a) ==
    /\ a \in DOMAIN rc
    /\ rc[a].pc = "wait"
    /\ rc[a].waited >= timeout
    /\ rc' = [rc EXCEPT ![a] = Finished(@, "timeout")]
    /\ UNCHANGED <<scrims, verifications, flows, mviews, completing, sweepers, cutoff, seen>>
    /\ reply' = NoReply

\* match_completed with the second verification: the write of played failed
match_completed_failed(user, scrim_id) ==
    /\ scrim_id \in Ids
    /\ mviews[scrim_id] # None
    /\ user \in {scrims[scrim_id].requester_id, mviews[scrim_id]}
    /\ get_scrim_by_id(scrims, scrim_id).status = "booked"
    /\ ~user_has_verified(verifications, scrim_id, user)
    /\ LET scrim == get_scrim_by_id(scrims, scrim_id)
           ver == add_verification(verifications, scrim_id, user)
       IN  /\ get_verification_count(ver, scrim_id) >= 2
           /\ verifications' = ver
           /\ completing' = completing \cup
                {[id |-> scrim_id, users |-> {scrim.requester_id, scrim.booked_by}]}
    /\ UNCHANGED <<scrims, flows, rc, mviews, sweepers, cutoff, seen>>
    /\ reply' = NoReply

\* the behaviours with one accepted booking in which status writes may fail
FaultyNext ==
    \/ SingleBooking
    \/ \E a \in DOMAIN rc : book_pending_failed(a)
    \/ \E a \in DOMAIN rc : rc_timeout_failed(a)
    \/ \E u \in Users, s \in Ids : match_completed_failed(u, s)

Faulty == Init /\ [][FaultyNext]_vars

\* -------------------------------------------- the verifications table alone
\* add_verification called with any pair, any number of times; the reply
\* is what it returns (affected > 0)
call_add_verification(scrim_id, user_id) ==
    LET after == add_verification(verifications, scrim_id, user_id) IN
    /\ verifications' = after
    /\ reply' = [op |-> "add_verification", user |-> user_id, id |-> scrim_id,
                 ret |-> rowcount(verifications, after) > 0]
    /\ UNCHANGED <<scrims, flows, rc, mviews, completing, sweepers, cutoff, seen>>

StoreNext == \E scrim_id \in 1..MaxScrims, user_id \in Users :
                call_add_verification(scrim_id, user_id)

Store == Init /\ [][StoreNext]_vars

\* ------------------------------------------------- the expiry tasks alone
\* on_ready fires again (the gateway session was replaced): one more
\* expire_old_scrims task on the same loop
on_reconnect ==
    /\ Len(sweepers) \in 1..(MaxTasks - 1)
    /\ sweepers' = Append(sweepers, [pc |-> "sleep", queue |-> <<>>])
    /\ UNCHANGED <<scrims, verifications, flows, rc, mviews, completing, cutoff, seen>>
    /\ reply' = NoReply

\* update_scrim_status(scrim['id'], 'expired') caught a database error and
\* returned False: the row is as it was, the task goes on with the embed
sweep_store_error(i) ==
    /\ i \in DOMAIN sweepers
    /\ \/ /\ sweepers[i].pc = "sleep"
          /\ LET expired_scrims == SortedSeq(get_expired_scrims(scrims, cutoff))
             IN  /\ expired_scrims # <<>>
                 /\ sweepers' = [sweepers EXCEPT ![i] =
                                    [pc |-> "busy", queue |-> Tail(expired_scrims)]]
                 /\ reply' = [op |-> "update_scrim_status",
                              id |-> Head(expired_scrims), ret |-> FALSE]
       \/ /\ sweepers[i].pc = "busy"
          /\ sweepers[i].queue # <<>>
          /\ sweepers' = [sweepers EXCEPT ![i].queue = Tail(@)]
          /\ reply' = [op |-> "update_scrim_status",
                       id |-> Head(sweepers[i].queue), ret |-> FALSE]
    /\ UNCHANGED <<scrims, verifications, flows, rc, mviews, completing, cutoff, seen>>

\* (a task that gives up the rows it still had when one row raised)
sweep_raised_abort(i) ==
    /\ i \in DOMAIN sweepers
    /\ sweepers[i].pc = "busy"
    /\ sweepers' = [sweepers EXCEPT ![i] = [pc |-> "sleep", queue |-> <<>>]]
    /\ reply' = [op |-> "expire_old_scrims", msg |-> "Error processing expired scrim"]
    /\ UNCHANGED <<scrims, verifications, flows, rc, mviews, completing, cutoff, seen>>

\* the embed update, the delete or the DM of the row in hand raised:
\* "Error processing expired scrim" is printed and the loop continues with
\* the next row of the same query
sweep_raised(i) ==
    /\ i \in DOMAIN sweepers
    /\ sweepers[i].pc = "busy"
    /\ IF sweepers[i].queue = <<>>
       THEN /\ sweepers' = [sweepers EXCEPT ![i].pc = "sleep"]
            /\ UNCHANGED scrims
       ELSE /\ scrims' = update_scrim_status(scrims, Head(sweepers[i].queue), "expired", None)
            /\ sweepers' = [sweepers EXCEPT ![i].queue = Tail(@)]
    /\ reply' = [op |-> "expire_old_scrims", msg |-> "Error processing expired scrim"]
    /\ UNCHANGED <<verifications, flows, rc, mviews, completing, cutoff, seen>>

\* requests are posted and grow old; nobody books, cancels or completes
SweepsNext ==
    \/ on_ready
    \/ on_reconnect
    \/ WallTick
    \/ \E u \in Users : create_scrim_cmd(u)
    \/ \E u \in Users : post_scrim(u)
    \/ \E i \in DOMAIN sweepers : sweep_start(i)
    \/ \E i \in DOMAIN sweepers : sweep_next(i)
    \/ \E i \in DOMAIN sweepers : sweep_store_error(i)
    \/ \E i \in DOMAIN sweepers : sweep_raised(i)

Sweeps == Init /\ [][SweepsNext]_vars

\* ----------------------------------------------------------------- claims
InReadyCheck(a) == rc[a].pc \in {"send_dms", "wait"}

Acks(ver, i) == {v \in BagToSet(ver) : v[1] = i}

BothInWindow(att) == {att.requester_id, att.challenger_id} \subseteq att.early

TimedOut(a) == rc[a].pc = "wait" /\ rc'[a].pc = "done" /\ rc'[a].outcome = "timeout"

NoOtherOpen(tbl, parties, trigger) ==
    \A i \in DOMAIN tbl :
        (i # trigger /\ tbl[i].requester_id \in parties) => tbl[i].status # "open"

SweeperStep == sweepers' # sweepers /\ scrims' # scrims

StaleOpen(i) == i \in Ids /\ scrims[i].status = "open" /\ i <= cutoff

\* the step in which expiry task i takes row r in hand: the first row of
\* its query, or the next one of the rows the query returned
Takes(i, r) ==
    \/ /\ sweepers[i].pc = "sleep"
       /\ sweepers'[i].pc = "busy"
       /\ r = Head(SortedSeq(get_expired_scrims(scrims, cutoff)))
    \/ /\ sweepers[i].pc = "busy"
       /\ sweepers[i].queue # <<>>
       /\ sweepers'[i].queue = Tail(sweepers[i].queue)
       /\ r = Head(sweepers[i].queue)

\* the step in which attempt a gives up: a DM could not be sent, or timeout
Reverts(a) ==
    rc[a].pc # "done" /\ rc'[a].pc = "done" /\ rc'[a].outcome \in {"nodm", "timeout"}

\* the step in which attempt a writes booked to its row
Books(a) == rc[a].pc \in {"wait", "expiring"} /\ rc'[a].pc = "booked"

\* a step that ran expire_user_scrims for the row trigger changed nothing
\* but open rows of the requester or the counterpart of that row
CascadeFrame(trigger) ==
    \A i \in Ids :
        (i # trigger /\ scrims'[i] # scrims[i])
            => /\ scrims[i].status = "open"
               /\ scrims[i].requester_id \in
                    {scrims[trigger].requester_id, scrims[trigger].booked_by}
               /\ scrims'[i] = [scrims[i] EXCEPT !.status = "expired"]

\* the columns of a row that are not status or booked_by
Created(row) == [f \in DOMAIN row \ {"status", "booked_by"} |-> row[f]]

RefusedNow(op, msg) == reply' # reply /\ reply'.op = op /\ reply'.msg = msg

\* C1: no user is the requester of two scrim rows whose status is open,
\* pending or booked at the same time.
OneActivePerUser ==
    \A i \in Ids, j \in Ids :
        (i # j /\ scrims[i].requester_id = scrims[j].requester_id)
            => ~(scrims[i].status \in Active /\ scrims[j].status \in Active)

\* C2: of the bookings of one open scrim only one succeeds: no scrim has two
\* ready-checks in progress, and while a ready-check is in progress the
\* counterpart of its scrim is the challenger of that ready-check.
OneBookingWins ==
    \A a \in DOMAIN rc : InReadyCheck(a) =>
        /\ \A b \in DOMAIN rc : (b # a /\ InReadyCheck(b)) => rc[b].id # rc[a].id
        /\ scrims[rc[a].id].booked_by = rc[a].challenger_id

\* C3: a row whose status is cancelled, expired or played keeps that status
\* in every later step.
TerminalIsFinal ==
    [][\A i \in Ids : scrims[i].status \in Terminal
            => scrims'[i].status = scrims[i].status]_vars

\* C4: booked_by of a row changes only in a step that takes the row from
\* open to pending.
CounterpartSetOnce ==
    [][\A i \in Ids : scrims'[i].booked_by # scrims[i].booked_by
            => (scrims[i].status = "open" /\ scrims'[i].status = "pending")]_vars

\* C5: every accepted match_completed call of a scrim observes ack count 1
\* or 2, and the row is played after the call exactly when it observed 2:
\* acks are never removed, so the row is taken to played once.
PlayedExactlyOnce ==
    [][\A i \in Ids : Acks(verifications', i) # Acks(verifications, i)
            => /\ Cardinality(Acks(verifications', i)) = Cardinality(Acks(verifications, i)) + 1
               /\ Cardinality(Acks(verifications', i)) <= 2
               /\ (scrims'[i].status = "played") <=> (Cardinality(Acks(verifications', i)) = 2)]_vars

\* C6: a ready-check leaves its wait towards booked if and only if its
\* requester and its challenger have both signalled on its own DMs within
\* 30 minutes of the start of the wait.
BookedIffBothConfirmed ==
    \A a \in DOMAIN rc :
        /\ rc[a].pc \in {"expiring", "booked"} => BothInWindow(rc[a])
        /\ rc[a].pc = "wait" => ~BothInWindow(rc[a])

\* C7: the step in which a ready-check times out leaves its row open with
\* no counterpart.
TimeoutReopensAndClears ==
    [][\A a \in DOMAIN rc : TimedOut(a)
            => /\ scrims'[rc[a].id].status = "open"
               /\ scrims'[rc[a].id].booked_by = None]_vars

\* C8: a ready-check accepts signals only within 30 minutes of the start of
\* its wait: once that time has passed the only step left to it is the
\* timeout.
SingleWindow ==
    \A a \in DOMAIN rc :
        (rc[a].pc = "wait" /\ rc[a].elapsed >= timeout) => rc[a].waited >= timeout

\* C9: in the step after which a scrim is booked by its ready-check, or
\* played with the cascade of match_completed done, neither party of that
\* flow is the requester of an open scrim other than the triggering one.
CascadeLeavesNoOpen ==
    [][/\ \A a \in DOMAIN rc :
            (rc[a].pc \in {"wait", "expiring"} /\ rc'[a].pc = "booked")
                => NoOtherOpen(scrims', {rc[a].requester_id, rc[a].challenger_id}, rc[a].id)
       /\ \A c \in completing :
            c \notin completing' => NoOtherOpen(scrims', c.users, c.id)]_vars

\* C10: every row the expiry task changes is open and older than the
\* threshold when the change is written.
SweeperOnlyOpen ==
    [][SweeperStep => \A i \in Ids : scrims'[i] # scrims[i]
            => (scrims[i].status = "open" /\ i <= cutoff)]_vars

\* C11: an open row older than the threshold is eventually expired, unless
\* it is booked (pending) or cancelled first: the sweep that finds it writes
\* expired to it.
StaleOpenExpires ==
    \A i \in 1..MaxScrims :
        StaleOpen(i) ~>
            (i \in Ids /\ scrims[i].status \in {"expired", "pending", "cancelled"})

\* a row nobody tried to book, expired by the task
SweptUnbooked ==
    \E i \in Ids : /\ scrims[i].status = "expired"
                    /\ i <= cutoff
                    /\ rc = <<>>
                    /\ \E j \in DOMAIN sweepers : sweepers[j].pc = "busy"

\* C12: a row is created only for a user who is not the requester of a row
\* whose status is open, pending or booked; the rows there were stay as
\* they are.
NoRecordWhileActive ==
    [][Len(scrims') > Len(scrims)
        => /\ get_active_scrim_for_user(scrims, scrims'[Len(scrims')].requester_id) = None
           /\ SubSeq(scrims', 1, Len(scrims)) = scrims]_vars

\* C13: Book Scrim pressed by the requester of the row is answered with
\* "You can't book your own scrim!" and changes neither the rows nor the
\* booking attempts; no attempt has the requester as its challenger, and
\* booked_by of a row is never its requester_id.
OwnBookingRefused ==
    /\ [](\A i \in Ids : scrims[i].booked_by # scrims[i].requester_id)
    /\ [][\A a \in DOMAIN rc' :
            (a \notin DOMAIN rc)
                => (rc'[a].challenger_id # scrims[rc'[a].id].requester_id)]_vars
    /\ [][RefusedNow("book_button", "You can't book your own scrim!")
            => (/\ reply'.user = scrims[reply'.id].requester_id
                /\ UNCHANGED <<scrims, verifications, rc, mviews>>)]_vars

\* the requester pressed Book Scrim on their open row: still open, no attempt
OwnBookingSeen ==
    /\ reply.op = "book_button"
    /\ reply.msg = "You can't book your own scrim!"
    /\ scrims[reply.id].status = "open"
    /\ scrims[reply.id].booked_by = None
    /\ rc = <<>>

\* C14: a row becomes cancelled only in a step that finds it open, and that
\* step changes nothing else of it; /cancel_scrim of a user whose active row
\* is pending or booked is answered with a refusal and changes no row.
CancelOnlyOpen ==
    /\ [][\A i \in Ids :
            (scrims'[i].status = "cancelled" /\ scrims[i].status # "cancelled")
                => (scrims[i].status = "open"
                        /\ scrims'[i] = [scrims[i] EXCEPT !.status = "cancelled"])]_vars
    /\ [][RefusedNow("cancel_scrim", "Your scrim cannot be cancelled.")
            => (/\ scrims[reply'.id].status \in {"pending", "booked"}
                /\ reply'.id = get_active_scrim_for_user(scrims, reply'.user)
                /\ UNCHANGED <<scrims, verifications, rc, mviews>>)]_vars

\* /cancel_scrim was refused for a row in a ready-check, after an earlier
\* row was cancelled
CancelRefusedSeen ==
    /\ reply.op = "cancel_scrim"
    /\ reply.id # None
    /\ scrims[reply.id].status = "pending"
    /\ scrims[reply.id].booked_by # None
    /\ \E i \in Ids : scrims[i].status = "cancelled"

\* C15: an ack of a user for a row is recorded only in a step that finds the
\* user to be the requester or the counterpart (booked_by) of the row, the
\* row booked and no ack of the user for it; any other Match Completed
\* leaves acks and status as they are.
AckOnlyFromParty ==
    [][\A i \in Ids :
        \A v \in Acks(verifications', i) \ Acks(verifications, i) :
            /\ v[2] \in {scrims[i].requester_id, scrims[i].booked_by}
            /\ scrims[i].status = "booked"]_vars

\* C16: after a call of add_verification with a pair the table holds exactly
\* one row of the pair, the count of the scrim counts each user once, and
\* the call returns True exactly when the pair had no row before it.
AckIdempotent ==
    [][reply'.op = "add_verification"
        => LET pair == <<reply'.id, reply'.user>> IN
           /\ CopiesIn(pair, verifications') = 1
           /\ get_verification_count(verifications', reply'.id)
                = Cardinality(Acks(verifications', reply'.id))
           /\ reply'.ret = ~BagIn(pair, verifications)
           /\ \A v \in BagToSet(verifications) :
                CopiesIn(v, verifications') = CopiesIn(v, verifications)]_vars

\* the second call with a pair returned False, and another user has a row
\* for the same scrim
AckRepeated ==
    /\ reply.op = "add_verification"
    /\ reply.ret = FALSE
    /\ CopiesIn(<<reply.id, reply.user>>, verifications) = 1
    /\ get_verification_count(verifications, reply.id) = 2

\* C17: a handler goes on only when its status write has landed: the
\* ready-check of an accepted booking starts with the row pending for its
\* challenger, and the step that records the second ack of a row leaves the
\* row played.
WriteLandsOrStops ==
    /\ [][\A a \in DOMAIN rc :
            (rc[a].pc = "fetch_user" /\ rc'[a].pc = "send_dms")
                => (/\ scrims'[rc[a].id].status = "pending"
                    /\ scrims'[rc[a].id].booked_by = rc[a].challenger_id)]_vars
    /\ [][\A i \in Ids :
            (Cardinality(Acks(verifications', i)) = 2
                    /\ Cardinality(Acks(verifications, i)) = 1)
                => (scrims'[i].status = "played")]_vars

\* C18: a ready-check whose DMs could not both be sent ends in the very step
\* that finds it out: the status of its row is open after the step, no other
\* row is touched (no cascade), and the attempt does nothing afterwards: it
\* never waits for reactions and never writes booked.
DmFailureAborts ==
    /\ [][\A a \in DOMAIN rc :
            (rc[a].pc = "send_dms" /\ rc'[a].pc # "send_dms")
                => \/ rc'[a].pc = "wait" /\ scrims' = scrims
                   \/ /\ rc'[a].pc = "done"
                      /\ rc'[a].outcome = "nodm"
                      /\ scrims'[rc[a].id].status = "open"
                      /\ \A j \in Ids : j # rc[a].id => scrims'[j] = scrims[j]]_vars
    /\ [][\A a \in DOMAIN rc : rc[a].pc = "done" => rc'[a] = rc[a]]_vars

\* a ready-check gave up for a DM that could not be sent: its row is open
DmFailureSeen ==
    \E a \in DOMAIN rc : /\ rc[a].pc = "done"
                          /\ rc[a].outcome = "nodm"
                          /\ scrims[rc[a].id].status = "open"

\* C19: no step removes a row or changes a column of it other than status
\* and booked_by: what _post_scrim stored stays as stored.
CreatedColumnsFrozen ==
    [][\A i \in Ids : i \in DOMAIN scrims' /\ Created(scrims'[i]) = Created(scrims[i])]_vars

\* a row went from open to played and another was expired: both still
\* carry what they were created with
ColumnsKeptThroughLife ==
    \E i \in Ids, j \in Ids :
        /\ scrims[i].status = "played"
        /\ scrims[i].booked_by # None
        /\ Created(scrims[i]) = Created(Row(scrims[i].requester_id))
        /\ scrims[j].status = "expired"
        /\ Created(scrims[j]) = Created(Row(scrims[j].requester_id))

\* C20: the step in which a ready-check gives up changes its row only when
\* the row is still pending for that ready-check's challenger; a row that
\* was booked, cancelled, expired or played in the meantime is left alone.
RevertOnlyPending ==
    [][\A a \in DOMAIN rc :
        (Reverts(a) /\ scrims' # scrims)
            => (/\ scrims[rc[a].id].status = "pending"
                /\ scrims[rc[a].id].booked_by = rc[a].challenger_id)]_vars

\* C21: the step in which a ready-check writes booked finds its row pending:
\* a row that left pending while the ready-check was suspended is not
\* moved to booked.
BookedOnlyFromPending ==
    [][\A a \in DOMAIN rc : Books(a) => scrims[rc[a].id].status = "pending"]_vars

\* C22: when the cascade of a ready-check has expired another row, the row
\* of the ready-check is booked.
BookedBeforeCascade ==
    [][\A a \in DOMAIN rc :
        (rc[a].pc = "wait" /\ rc'[a].pc = "expiring")
            => scrims'[rc[a].id].status = "booked"]_vars

\* C23: a step that runs the cascade, of a ready-check or of
\* match_completed, changes only rows that are open, whose requester is the
\* requester or the counterpart (booked_by) of the triggering row, and that
\* are not the triggering row; the cascade leaves the triggering row alone.
CascadeOnlyPartiesOpen ==
    [][/\ \A a \in DOMAIN rc :
            (rc[a].pc = "wait" /\ rc'[a].pc \in {"expiring", "booked"})
                => /\ CascadeFrame(rc[a].id)
                   /\ rc'[a].pc = "expiring" => scrims'[rc[a].id] = scrims[rc[a].id]
       /\ \A c \in completing :
            c \notin completing'
                => (CascadeFrame(c.id) /\ scrims'[c.id] = scrims[c.id])]_vars

\* C24: no row has more than two acks, and every ack of a row is of its
\* requester or of its counterpart (booked_by).
AtMostTwoPartyAcks ==
    \A i \in Ids :
        /\ get_verification_count(verifications, i) <= 2
        /\ \A v \in Acks(verifications, i) :
                v[2] \in {scrims[i].requester_id, scrims[i].booked_by}

\* C25: a row that is played has at least two acks, and a row becomes
\* played only in a step that finds it booked, records an ack for it and
\* leaves it with at least two.
PlayedOnlyFromBookedWithTwo ==
    /\ [](\A i \in Ids : scrims[i].status = "played"
                => get_verification_count(verifications, i) >= 2)
    /\ [][\A i \in Ids :
            (scrims'[i].status = "played" /\ scrims[i].status # "played")
                => (/\ scrims[i].status = "booked"
                    /\ Acks(verifications', i) # Acks(verifications, i)
                    /\ get_verification_count(verifications', i) >= 2)]_vars

\* a booked row was confirmed by both parties and is played
PlayedWithTwoAcks ==
    \E i \in Ids : /\ scrims[i].status = "played"
                    /\ Acks(verifications, i) =
                            {<<i, scrims[i].requester_id>>, <<i, scrims[i].booked_by>>}
                    /\ scrims[i].booked_by # None

\* C26: with two expiry tasks, a row is expired and its requester notified
\* by one of them only: a task takes a row in hand (writes expired, updates
\* the embed, sends the DM) only while the row is still open.
ExpiredByOneTask ==
    [][\A i \in DOMAIN sweepers : \A r \in Ids :
            Takes(i, r) => scrims[r].status = "open"]_vars

\* C27: whatever happened to the row in hand (the write failed, the embed
\* update, the delete or the DM raised), a task that still has rows of its
\* query goes on with the next of them and keeps the rest; that row is
\* expired after the step unless its own write failed.
SweepGoesOn ==
    [][\A i \in DOMAIN sweepers :
            (sweepers[i].pc = "busy" /\ sweepers[i].queue # <<>>
                                    /\ sweepers'[i] # sweepers[i])
                => (/\ sweepers'[i].pc = "busy"
                    /\ sweepers'[i].queue = Tail(sweepers[i].queue)
                    /\ \/ scrims'[Head(sweepers[i].queue)].status = "expired"
                       \/ reply' = [op |-> "update_scrim_status",
                                    id |-> Head(sweepers[i].queue), ret |-> FALSE])]_vars

\* the only task had row 1 in hand when it raised, and has expired row 2
ExpiredAfterRaise ==
    /\ Len(sweepers) = 1
    /\ sweepers[1] = [pc |-> "busy", queue |-> <<>>]
    /\ reply = [op |-> "expire_old_scrims", msg |-> "Error processing expired scrim"]
    /\ Len(scrims) = 2
    /\ scrims[2].status = "expired"

\* C28: a row that is pending is eventually not pending, given that the
\* event loop clock advances, due timeouts are raised and the ready-check
\* task is resumed after each await.
PendingEnds ==
    \A i \in 1..MaxScrims :
        (i \in Ids /\ scrims[i].status = "pending")
            ~> (i \in Ids /\ scrims[i].status # "pending")

====
